---- MODULE Spec2Model ----
(***************************************************************************)
(* Intent classification service (Bramp-server, intent-classifier).        *)
(*                                                                         *)
(*   hf_intent_classifier.py  classify_intent_hf  remote backend           *)
(*   intent_classifier.py     classify_intent     local pipeline backend   *)
(*   app.py                   classify, health    FastAPI endpoints        *)
(*                                                                         *)
(* Text is a sequence of one-character strings, so that strip, join and    *)
(* the f-string concatenation are computed.  A dict is a set of            *)
(* <<key, value>> pairs with at most one pair per key.  A score is an      *)
(* integer number of hundredths.                                           *)
(***************************************************************************)
EXTENDS Integers, Sequences, FiniteSets, TLC

(***************************************************************************)
(* Bounds of the model.                                                    *)
(***************************************************************************)
NumClients == 2
MaxMsgLen == 1
MaxHistLen == 4

Clients == 1..NumClients

(***************************************************************************)
(* Python values.                                                          *)
(***************************************************************************)
None == "None"
Whitespace == {" "}
MsgChars == {" ", "E"}
TurnLetters == <<"A", "B", "C", "D", "F", "G", "H">>

SeqsUpTo(S, n) == UNION {[1..k -> S] : k \in 0..n}

\* s[-n:]
LastN(s, n) == IF Len(s) <= n THEN s ELSE SubSeq(s, Len(s) - n + 1, Len(s))

RECURSIVE LStrip(_)
LStrip(s) == IF s = <<>> THEN s
             ELSE IF Head(s) \in Whitespace THEN LStrip(Tail(s)) ELSE s

RECURSIVE RStrip(_)
RStrip(s) == IF s = <<>> THEN s
             ELSE IF s[Len(s)] \in Whitespace THEN RStrip(SubSeq(s, 1, Len(s) - 1)) ELSE s

\* str.strip()
Strip(s) == RStrip(LStrip(s))

\* sep.join(parts)
RECURSIVE Join(_, _)
Join(parts, sep) == IF parts = <<>> THEN <<>>
                    ELSE IF Len(parts) = 1 THEN parts[1]
                    ELSE parts[1] \o sep \o Join(Tail(parts), sep)

\* dict operations on sets of <<key, value>> pairs
EmptyDict == {}
DictKeys(d) == {p[1] : p \in d}
DictHas(d, k) == k \in DictKeys(d)
DictAt(d, k) == (CHOOSE p \in d : p[1] = k)[2]
DictGet(d, k, default) == IF DictHas(d, k) THEN DictAt(d, k) ELSE default
\* mutant: an entry already present is kept
DictPut_KeepFirst(d, k, v) == IF k \in {p[1] : p \in d} THEN d ELSE d \cup {<<k, v>>}
DictPut(d, k, v) == {p \in d : p[1] # k} \cup {<<k, v>>}

(***************************************************************************)
(* Label registry: the values the module-level names are bound to at       *)
(* import time.                                                            *)
(***************************************************************************)
INTENT_LABELS_0 ==
    << "sell_crypto", "deposit_crypto", "check_balance", "check_portfolio",
       "get_crypto_price", "get_naira_rates", "transaction_history", "help",
       "support", "security_question", "feedback", "greeting",
       "spacewatch_leaderboard", "general_knowledge", "realtime_crypto_news" >>

INTENT_MAPPING_0 ==
    { <<"sell_crypto", "sell">>,
      <<"deposit_crypto", "deposit">>,
      <<"check_balance", "dashboard">>,
      <<"check_portfolio", "dashboard">>,
      <<"get_crypto_price", "supported_token_price">>,
      <<"get_naira_rates", "naira_rates">>,
      <<"transaction_history", "transaction_history">>,
      <<"help", "help">>,
      <<"support", "support">>,
      <<"security_question", "security">>,
      <<"feedback", "feedback">>,
      <<"greeting", "greeting">>,
      <<"spacewatch_leaderboard", "spacewatch_leaderboard">>,
      <<"general_knowledge", "general_knowledge">>,
      <<"realtime_crypto_news", "realtime">> }

Backends == {"hf", "local"}

(***************************************************************************)
(* Inputs of a request: the message, and the history, which is None or a   *)
(* list of turns.  A turn is a dict whose "text" key is missing, holds a   *)
(* string, or holds a value that is not a string (null, a number): the     *)
(* request model types a turn as Dict only.  The i-th turn of a history,   *)
(* when it holds a string, holds the i-th letter.                          *)
(***************************************************************************)
Messages == SeqsUpTo(MsgChars, MaxMsgLen)

TurnKinds == {"str", "absent", "nonstr"}

Letter(i) == << TurnLetters[((i - 1) % Len(TurnLetters)) + 1] >>

Turn(i, kind) == [has_text |-> kind # "absent",
                  is_str   |-> kind = "str",
                  text     |-> IF kind = "str" THEN Letter(i) ELSE <<>>]

NoHistory == [present |-> FALSE, turns |-> <<>>]

Histories ==
    {NoHistory} \cup
    { [present |-> TRUE, turns |-> [i \in DOMAIN ks |-> Turn(i, ks[i])]] :
        ks \in SeqsUpTo(TurnKinds, MaxHistLen) }

(***************************************************************************)
(* What the classifier may answer.  The remote classifier: the post        *)
(* raises Timeout or another RequestException, or returns a response with  *)
(* a status code and a body.  The local classifier: the pipeline call      *)
(* raises, or returns a value.                                             *)
(***************************************************************************)
\* a score that is not a number (JSON null)
NullScore == -1

\* the classifier's scores of a ranking, descending, in hundredths
RankScores == <<30, 15, 10, 8, 7, 6, 5, 4, 4, 3, 3, 2, 1, 1, 1>>

Rotate(s, k) == [i \in 1..Len(s) |-> s[((i - 1 + k) % Len(s)) + 1]]
Reverse(s) == [i \in 1..Len(s) |-> s[Len(s) + 1 - i]]

\* the rankings of all labels the classifier answers with
Rankings == {Rotate(INTENT_LABELS_0, k) : k \in 0..(Len(INTENT_LABELS_0) - 1)}
            \cup {Reverse(INTENT_LABELS_0)}

Body(shape, has_labels, labels, has_scores, scores) ==
    [shape |-> shape, has_labels |-> has_labels, labels |-> labels,
     has_scores |-> has_scores, scores |-> scores]

NoBody == Body("none", FALSE, <<>>, FALSE, <<>>)

\* {"labels": [...], "scores": [...]} ranking every label
RankedBodies == {Body("dict", TRUE, r, TRUE, RankScores) : r \in Rankings}

\* the single-element list wrapping that shape
WrappedBodies == {Body("list1", TRUE, INTENT_LABELS_0, TRUE, RankScores)}

\* well-formed answers whose labels are not all labels of the registry
ForeignBodies ==
    { Body("dict", TRUE, <<"unknown_label", "check_balance">>, TRUE, <<90, 10>>),
      Body("dict", TRUE, <<"greeting", "unknown_label">>, TRUE, <<60, 40>>) }

MalformedBodies ==
    { Body("notjson", FALSE, <<>>, FALSE, <<>>),
      Body("scalar", FALSE, <<>>, FALSE, <<>>),
      Body("list0", FALSE, <<>>, FALSE, <<>>),
      Body("dict", FALSE, <<>>, FALSE, <<>>),
      Body("dict", TRUE, <<>>, TRUE, <<>>),
      Body("dict", TRUE, <<"greeting", "help">>, FALSE, <<>>),
      Body("dict", TRUE, <<"greeting", "help">>, TRUE, <<>>),
      Body("dict", TRUE, <<"greeting", "help">>, TRUE, <<NullScore, NullScore>>) }

Bodies == RankedBodies \cup WrappedBodies \cup ForeignBodies \cup MalformedBodies

ErrorBody == Body("dict", FALSE, <<>>, FALSE, <<>>)

Response(kind, status, body) == [kind |-> kind, status |-> status, body |-> body]

NoResponse == Response("none", 0, NoBody)

NonSuccessStatuses == {503, 500, 429, 404, 304}

HfResponses ==
    {Response("timeout", 0, NoBody), Response("neterr", 0, NoBody)}
    \cup {Response("http", 200, b) : b \in Bodies}
    \cup {Response("http", s, ErrorBody) : s \in NonSuccessStatuses}

LocalResponses ==
    {Response("raise", 0, NoBody)}
    \cup {Response("value", 0, b) : b \in {x \in Bodies : x.shape = "dict"}}

\* time.time() - start_time around the first post, in milliseconds
ElapsedMs == {120, 480}

(***************************************************************************)
(* Exceptions and result dicts.  A result dict is a record that names its  *)
(* keys; a key that is not in it holds None (NoTime for the number).       *)
(***************************************************************************)
Exc(type, msg) == [type |-> type, msg |-> msg]

NoExc == Exc("none", "")

\* the subclasses of requests.exceptions.RequestException that occur
RequestExceptions == {"Timeout", "ConnectionError", "HTTPError", "JSONDecodeError"}

NoTime == -1

Result(keys, intent, confidence, all_scores, raw_label, source, error, request_time_ms) ==
    [keys |-> keys, intent |-> intent, confidence |-> confidence,
     all_scores |-> all_scores, raw_label |-> raw_label, source |-> source,
     error |-> error, request_time_ms |-> request_time_ms]

NoResult == Result({}, None, 0, EmptyDict, None, None, None, NoTime)

\* hf_intent_classifier.py: the dict returned for an empty message
HfEmptyResult ==
    Result({"intent", "confidence", "all_scores", "source", "error"},
           "general", 0, EmptyDict, None, "hf_api", "Empty message", NoTime)

\* intent_classifier.py: the dict returned for an empty message
LocalEmptyResult ==
    Result({"intent", "confidence", "all_scores"},
           "general", 0, EmptyDict, None, None, None, NoTime)

\* mutant: the except clauses forget the error annotation
HfErrorResult_NoErrorKey(error) ==
    Result({"intent", "confidence", "all_scores", "source"},
           "general", 0, EmptyDict, None, "hf_api", None, NoTime)

\* hf_intent_classifier.py: the dicts returned by the except clauses
HfErrorResult(error) ==
    Result({"intent", "confidence", "all_scores", "source", "error"},
           "general", 0, EmptyDict, None, "hf_api", error, NoTime)

\* intent_classifier.py: the dict returned by the except clause
LocalErrorResult(error) ==
    Result({"intent", "confidence", "all_scores", "error"},
           "general", 0, EmptyDict, None, None, error, NoTime)

\* mutant: no except clause of its own for Timeout
HfExcept_NoTimeoutClause(exc) == HfErrorResult(exc.msg)

\* the except clauses of classify_intent_hf, in their order
HfExcept(exc) ==
    IF exc.type = "Timeout" THEN HfErrorResult("Request timeout")
    ELSE IF exc.type \in RequestExceptions THEN HfErrorResult(exc.msg)
    ELSE HfErrorResult(exc.msg)

\* the except clause of classify_intent
LocalExcept(exc) == LocalErrorResult(exc.msg)

(***************************************************************************)
(* if not message or not message.strip()                                   *)
(***************************************************************************)
\* mutant: the strip is forgotten
IsEmptyMessage_NoStrip(message) == message = <<>>

IsEmptyMessage(message) == message = <<>> \/ Strip(message) = <<>>

(***************************************************************************)
(* Context composition (the same statements in both backends).  The value  *)
(* is the text to classify, or the TypeError that str.join raises on an    *)
(* item that is not a string.                                              *)
(***************************************************************************)
\* h.get("text", "")
TurnText(h) == IF h.has_text THEN h.text ELSE <<>>

\* h.get("text", "") is a str
TurnTextIsStr(h) == ~h.has_text \/ h.is_str

\* mutant: the first three turns instead of the last three
RecentHistory_First3(turns) == IF Len(turns) > 3 THEN SubSeq(turns, 1, 3) ELSE turns

\* history[-3:] if len(history) > 3 else history
RecentHistory(turns) == IF Len(turns) > 3 THEN LastN(turns, 3) ELSE turns

ComposeContext(message, history) ==
    IF history.present /\ history.turns # <<>>
    THEN LET last2 == LastN(RecentHistory(history.turns), 2)
             context == Join([i \in 1..Len(last2) |-> TurnText(last2[i])], <<" ">>)
         IN IF \E i \in 1..Len(last2) : ~TurnTextIsStr(last2[i])
            THEN [exc |-> Exc("TypeError", "sequence item: expected str instance"),
                  text |-> <<>>]
            ELSE IF context # <<>>
                 THEN [exc |-> NoExc, text |-> context \o <<" ">> \o message]
                 ELSE [exc |-> NoExc, text |-> message]
    ELSE [exc |-> NoExc, text |-> message]

(***************************************************************************)
(* Result normalisation.                                                   *)
(***************************************************************************)
\* mutant: the raw label is not mapped
MapLabel_Identity(mapping, label, default) == label

\* mutant: every fallback is the reserved intent
MapLabel_General(mapping, label, default) == DictGet(mapping, label, "general")

\* INTENT_MAPPING.get(label, default)
MapLabel(mapping, label, default) == DictGet(mapping, label, default)

\* float(score) of a JSON number is that number; of null it raises
Float(score) == score

Min(a, b) == IF a <= b THEN a ELSE b

\* {INTENT_MAPPING.get(label, label): score for label, score in zip(labels, scores)}
\* entries are written in the order of the ranking; a later one replaces an
\* earlier one with the same key
RECURSIVE AllScores(_, _, _, _)
AllScores(mapping, labels, scores, d) ==
    IF labels = <<>> \/ scores = <<>> THEN d
    ELSE AllScores(mapping, Tail(labels), Tail(scores),
                   DictPut(d, MapLabel(mapping, Head(labels), Head(labels)),
                           Float(Head(scores))))

\* response.raise_for_status()
RaisesForStatus(status) == 400 <= status /\ status < 600

HttpErrorMsg(status) == IF status < 500 THEN "Client Error" ELSE "Server Error"

\* the exception raised, if any, while the top label and score are taken
\* from the answer: hf_intent_classifier.py lines 142-150 (a one-element list
\* is unwrapped and the format is checked), intent_classifier.py lines 101-102
ExtractExc(body, hf) ==
    IF hf /\ (body.shape \notin {"dict", "list1"} \/ ~body.has_labels)
        THEN Exc("ValueError", "Unexpected API response format")
    ELSE IF ~hf /\ body.shape # "dict"
        THEN Exc("TypeError", "indices must be integers")
    ELSE IF ~body.has_labels THEN Exc("KeyError", "'labels'")
    ELSE IF body.labels = <<>> THEN Exc("IndexError", "list index out of range")
    ELSE IF ~body.has_scores THEN Exc("KeyError", "'scores'")
    ELSE IF body.scores = <<>> THEN Exc("IndexError", "list index out of range")
    ELSE NoExc

\* result["labels"][0]
TopLabel(body) == body.labels[1]

\* mutant: the score of the last label of the ranking
TopScore_Last(body) == body.scores[Len(body.scores)]

\* result["scores"][0]
TopScore(body) == body.scores[1]

\* the zipped scores that float() is applied to
ZippedScores(body) == SubSeq(body.scores, 1, Min(Len(body.labels), Len(body.scores)))

HasNullScore(scores) == \E i \in 1..Len(scores) : scores[i] = NullScore

\* classify_intent_hf, lines 138-168: the result returned, or the exception
\* raised inside the try block
HfNormalize(mapping, response, request_time) ==
    LET body == response.body IN
    IF RaisesForStatus(response.status)
        THEN [exc |-> Exc("HTTPError", HttpErrorMsg(response.status)), result |-> NoResult]
    ELSE IF body.shape = "notjson"
        THEN [exc |-> Exc("JSONDecodeError", "Expecting value"), result |-> NoResult]
    ELSE IF ExtractExc(body, TRUE) # NoExc
        THEN [exc |-> ExtractExc(body, TRUE), result |-> NoResult]
    ELSE IF HasNullScore(ZippedScores(body))
        THEN [exc |-> Exc("TypeError", "float() argument must be a string or a number"),
              result |-> NoResult]
    ELSE [exc |-> NoExc,
          result |-> Result({"intent", "confidence", "all_scores", "raw_label",
                             "source", "request_time_ms"},
                            MapLabel(mapping, TopLabel(body), "general"),
                            Float(TopScore(body)),
                            AllScores(mapping, body.labels, body.scores, EmptyDict),
                            TopLabel(body), "hf_api", None, request_time)]

\* classify_intent, lines 100-118
LocalNormalize(mapping, response) ==
    LET body == response.body IN
    IF ExtractExc(body, FALSE) # NoExc
        THEN [exc |-> ExtractExc(body, FALSE), result |-> NoResult]
    ELSE IF TopScore(body) = NullScore
        THEN [exc |-> Exc("TypeError", "float() argument must be a string or a number"),
              result |-> NoResult]
    ELSE [exc |-> NoExc,
          result |-> Result({"intent", "confidence", "all_scores", "raw_label"},
                            MapLabel(mapping, TopLabel(body), "general"),
                            Float(TopScore(body)),
                            AllScores(mapping, body.labels, body.scores, EmptyDict),
                            TopLabel(body), None, None, NoTime)]

(***************************************************************************)
(* app.py: the answers of the endpoints.                                   *)
(***************************************************************************)
Http(code, type, intent, confidence, all_scores, raw_label, error, detail) ==
    [code |-> code, type |-> type, intent |-> intent, confidence |-> confidence,
     all_scores |-> all_scores, raw_label |-> raw_label, error |-> error,
     detail |-> detail]

NoHttp == Http(0, "none", None, 0, EmptyDict, None, None, None)

\* mutant: the response model also carries the timing of the dict
ClassificationResponse_WithTiming(result) ==
    [code |-> 200, type |-> "classification", intent |-> result.intent,
     confidence |-> result.confidence, all_scores |-> result.all_scores,
     raw_label |-> IF "raw_label" \in result.keys THEN result.raw_label ELSE None,
     error |-> IF "error" \in result.keys THEN result.error ELSE None,
     detail |-> ToString(result.request_time_ms)]

\* return ClassificationResponse(**result): the fields of the response model
\* are taken from the dict, raw_label and error default to None, other keys
\* are ignored; a dict without a required field fails validation
ClassificationResponse(result) ==
    IF {"intent", "confidence", "all_scores"} \subseteq result.keys
    THEN Http(200, "classification", result.intent, result.confidence,
              result.all_scores,
              IF "raw_label" \in result.keys THEN result.raw_label ELSE None,
              IF "error" \in result.keys THEN result.error ELSE None,
              None)
    ELSE Http(500, "error", None, 0, EmptyDict, None, None, "validation error")

\* raise HTTPException(status_code=500, detail=str(e))
InternalError(exc) == Http(500, "error", None, 0, EmptyDict, None, None, exc.msg)

\* return {"status": "healthy", "service": "intent-classifier"}
HealthResponse == Http(200, "health", None, 0, EmptyDict, None, None, "healthy")

(***************************************************************************)
(* State.                                                                  *)
(*   req[c]    the request of client c and the position of its handler     *)
(*   loop      the client whose endpoint coroutine the event loop runs,    *)
(*             0 when the loop is free                                     *)
(*   registry  INTENT_LABELS and INTENT_MAPPING of each backend module     *)
(***************************************************************************)
VARIABLES req, loop, registry

vars == <<req, loop, registry>>

\* what a request has done so far: "post" and "call" are the classifier
\* invocations, with the text sent and the classifier's reply; "sleep" is the
\* backoff
Event(ev, text, reply) == [ev |-> ev, text |-> text, reply |-> reply]

Request(pc, op, message, history) ==
    [pc |-> pc, op |-> op, message |-> message, history |-> history,
     context_message |-> <<>>, events |-> <<>>, response |-> NoResponse,
     request_time |-> NoTime, exc |-> NoExc, result |-> NoResult, http |-> NoHttp]

IdleRequest == Request("idle", "none", <<>>, NoHistory)

\* the classifier invocations a request has made
Invocations(r) == SelectSeq(r.events, LAMBDA e : e.ev \in {"post", "call"})

\* the backoffs a request has slept
Backoffs(r) == SelectSeq(r.events, LAMBDA e : e.ev = "sleep")

Backend(r) == IF r.op = "local" THEN "local" ELSE "hf"

Init ==
    /\ req = [c \in Clients |-> IdleRequest]
    /\ loop = 0
    /\ registry = [b \in Backends |->
                     [INTENT_LABELS |-> INTENT_LABELS_0,
                      INTENT_MAPPING |-> INTENT_MAPPING_0]]

(***************************************************************************)
(* A client sends a request: POST /classify, GET /health, or (op "local")  *)
(* a call of classify_intent of the local backend.                         *)
(***************************************************************************)
Send(c, ops, messages, histories) ==
    /\ req[c].pc = "idle"
    /\ \E op \in ops, m \in messages, h \in histories :
          req' = [req EXCEPT ![c] =
                    IF op = "health" THEN Request("pending", op, <<>>, NoHistory)
                    ELSE Request("pending", op, m, h)]
    /\ UNCHANGED <<loop, registry>>

\* app.py health: the coroutine runs to its end on the free event loop
Health(c) ==
    /\ req[c].pc = "pending"
    /\ req[c].op = "health"
    /\ loop = 0
    /\ req' = [req EXCEPT ![c].pc = "Responded", ![c].http = HealthResponse]
    /\ UNCHANGED <<loop, registry>>

\* app.py classify starts on the free event loop and calls
\* classify_intent_hf; a call of classify_intent starts
Receive(c) ==
    /\ req[c].pc = "pending"
    /\ \/ /\ req[c].op = "classify"
          /\ loop = 0
          /\ loop' = c
       \/ /\ req[c].op = "local"
          /\ UNCHANGED loop
    /\ req' = [req EXCEPT ![c].pc = "Received"]
    /\ UNCHANGED registry

\* if not message or not message.strip()
CheckEmpty(c) ==
    /\ req[c].pc = "Received"
    /\ req' = [req EXCEPT ![c].pc = IF IsEmptyMessage(req[c].message)
                                     THEN "ShortCircuit" ELSE "Composing"]
    /\ UNCHANGED <<loop, registry>>

\* the early return of the dict for an empty message
ShortCircuit(c) ==
    /\ req[c].pc = "ShortCircuit"
    /\ req' = [req EXCEPT ![c].pc = "Returned",
                           ![c].result = IF Backend(req[c]) = "hf"
                                         THEN HfEmptyResult ELSE LocalEmptyResult]
    /\ UNCHANGED <<loop, registry>>

\* the context is built before the try block: its TypeError leaves the
\* function
Compose(c) ==
    /\ req[c].pc = "Composing"
    /\ LET composed == ComposeContext(req[c].message, req[c].history) IN
         req' = [req EXCEPT ![c].pc = IF composed.exc = NoExc THEN "Scoring" ELSE "Raised",
                            ![c].exc = composed.exc,
                            ![c].context_message = composed.text]
    /\ UNCHANGED <<loop, registry>>

\* mutant: the loading status is not retried
AfterPost_NoRetry(first, r) ==
    IF r.kind # "http" THEN "Failed" ELSE "Normalizing"

\* mutant: the loading status is retried every time
AfterPost_AlwaysRetry(first, r) ==
    IF r.kind # "http" THEN "Failed"
    ELSE IF r.status = 503 THEN "AwaitingModel"
    ELSE "Normalizing"

\* mutant: every server error status of the first post is retried
AfterPost_RetryServerErrors(first, r) ==
    IF r.kind # "http" THEN "Failed"
    ELSE IF first /\ r.status >= 500 THEN "AwaitingModel"
    ELSE "Normalizing"

\* where classify_intent_hf goes after a post: to the except clauses when it
\* raised, to the backoff when the first post answered 503, else on
AfterPost(first, r) ==
    IF r.kind # "http" THEN "Failed"
    ELSE IF first /\ r.status = 503 THEN "AwaitingModel"
    ELSE "Normalizing"

\* requests.post: the first one of a request (lines 118-124, then the
\* status test of line 127) or the one after the backoff (lines 131-136)
\* with the classifier's replies and the elapsed times drawn from the sets given
PostFrom(c, responses, elapsed) ==
    /\ req[c].pc = "Scoring"
    /\ req[c].op = "classify"
    /\ \E r \in responses, t \in elapsed :
         LET first == Backoffs(req[c]) = <<>>
             sent == Append(req[c].events, Event("post", req[c].context_message, r))
         IN req' = [req EXCEPT
                ![c].events = sent,
                ![c].response = IF r.kind = "http" THEN r ELSE @,
                ![c].request_time = IF first /\ r.kind = "http" THEN t ELSE @,
                ![c].exc = IF r.kind = "timeout" THEN Exc("Timeout", "Read timed out")
                           ELSE IF r.kind = "neterr"
                                THEN Exc("ConnectionError", "Connection refused")
                           ELSE @,
                ![c].pc = AfterPost(first, r)]
    /\ UNCHANGED <<loop, registry>>

Post(c) == PostFrom(c, HfResponses, ElapsedMs)

\* time.sleep(2)
Backoff(c) ==
    /\ req[c].pc = "AwaitingModel"
    /\ req' = [req EXCEPT ![c].events = Append(@, Event("sleep", <<>>, NoResponse)),
                           ![c].pc = "Scoring"]
    /\ UNCHANGED <<loop, registry>>

\* classifier(context_message, INTENT_LABELS, multi_label=False)
\* with the classifier's replies drawn from the set given
ClassifyFrom(c, responses) ==
    /\ req[c].pc = "Scoring"
    /\ req[c].op = "local"
    /\ \E r \in responses :
         req' = [req EXCEPT
                ![c].events = Append(@, Event("call", req[c].context_message, r)),
                ![c].response = IF r.kind = "value" THEN r ELSE @,
                ![c].exc = IF r.kind = "raise" THEN Exc("RuntimeError", "inference failed")
                           ELSE @,
                ![c].pc = IF r.kind = "raise" THEN "Failed" ELSE "Normalizing"]
    /\ UNCHANGED <<loop, registry>>

Classify(c) == ClassifyFrom(c, LocalResponses)

\* mutant: the fallback of an unmapped top label is stored in INTENT_MAPPING
Normalize_StoresFallback(c) ==
    /\ req[c].pc = "Normalizing"
    /\ LET mapping == registry[Backend(req[c])].INTENT_MAPPING
           out == IF Backend(req[c]) = "hf"
                  THEN HfNormalize(mapping, req[c].response, req[c].request_time)
                  ELSE LocalNormalize(mapping, req[c].response)
       IN /\ req' = [req EXCEPT ![c].pc = IF out.exc = NoExc THEN "Returned" ELSE "Failed",
                                ![c].exc = out.exc,
                                ![c].result = out.result]
          /\ registry' = IF out.exc = NoExc
                         THEN [registry EXCEPT ![Backend(req[c])].INTENT_MAPPING =
                                  DictPut(@, out.result.raw_label, out.result.intent)]
                         ELSE registry
    /\ UNCHANGED loop

\* the rest of the try block: the result is returned or an exception raised
Normalize(c) ==
    /\ req[c].pc = "Normalizing"
    /\ LET mapping == registry[Backend(req[c])].INTENT_MAPPING
           out == IF Backend(req[c]) = "hf"
                  THEN HfNormalize(mapping, req[c].response, req[c].request_time)
                  ELSE LocalNormalize(mapping, req[c].response)
       IN req' = [req EXCEPT ![c].pc = IF out.exc = NoExc THEN "Returned" ELSE "Failed",
                             ![c].exc = out.exc,
                             ![c].result = out.result]
    /\ UNCHANGED <<loop, registry>>

\* the except clauses
Except(c) ==
    /\ req[c].pc = "Failed"
    /\ req' = [req EXCEPT ![c].pc = "Returned",
                           ![c].result = IF Backend(req[c]) = "hf"
                                         THEN HfExcept(req[c].exc)
                                         ELSE LocalExcept(req[c].exc)]
    /\ UNCHANGED <<loop, registry>>

\* app.py classify, lines 42-46: the answer of the endpoint; the coroutine
\* ends and frees the event loop
Respond(c) ==
    /\ req[c].op = "classify"
    /\ req[c].pc \in {"Returned", "Raised"}
    /\ loop = c
    /\ req' = [req EXCEPT ![c].pc = "Responded",
                           ![c].http = IF req[c].pc = "Returned"
                                       THEN ClassificationResponse(req[c].result)
                                       ELSE InternalError(req[c].exc)]
    /\ loop' = 0
    /\ UNCHANGED registry

\* the request is over for its client
Finished(r) ==
    \/ r.pc = "Responded"
    \/ r.op = "local" /\ r.pc \in {"Returned", "Raised"}

\* the client has its answer and may send another request
Done(c) ==
    /\ Finished(req[c])
    /\ req' = [req EXCEPT ![c] = IdleRequest]
    /\ UNCHANGED <<loop, registry>>

\* the steps of a classification that do not draw a reply of the classifier
FacadeStep(c) ==
    \/ Receive(c)
    \/ CheckEmpty(c)
    \/ ShortCircuit(c)
    \/ Compose(c)
    \/ Backoff(c)
    \/ Normalize(c)
    \/ Except(c)
    \/ Respond(c)

Handle(c) ==
    \/ Health(c)
    \/ FacadeStep(c)
    \/ Post(c)
    \/ Classify(c)
    \/ Done(c)

(***************************************************************************)
(* Spec: one caller sends one request after the other, with every message  *)
(* and history of the bounds.                                              *)
(***************************************************************************)
Caller == CHOOSE c \in Clients : \A d \in Clients : c <= d

Ops == {"classify", "local", "health"}

Next ==
    \/ Send(Caller, Ops, Messages, Histories)
    \/ Handle(Caller)

Spec == Init /\ [][Next]_vars

(***************************************************************************)
(* The smaller inputs and replies of the specifications with several       *)
(* requests in the state.                                                  *)
(***************************************************************************)
FewMessages == {<<>>, <<"E">>}

FewHistories == {NoHistory, [present |-> TRUE, turns |-> <<Turn(1, "str")>>]}

FewResponses ==
    { Response("timeout", 0, NoBody),
      Response("http", 503, ErrorBody),
      Response("http", 200, Body("dict", TRUE, INTENT_LABELS_0, TRUE, RankScores)),
      Response("http", 200,
               Body("dict", TRUE, <<"unknown_label", "check_balance">>, TRUE, <<90, 10>>)) }

FewLocalResponses ==
    { Response("raise", 0, NoBody),
      Response("value", 0, Body("dict", TRUE, INTENT_LABELS_0, TRUE, RankScores)) }

(***************************************************************************)
(* SpecTwice: the calls of one caller in a row, as the loop of __main__    *)
(* makes them: request c is sent when request c - 1 has been answered, and *)
(* every answered request stays in the state for comparison.               *)
(***************************************************************************)
SendInARow(c) ==
    /\ \A d \in Clients : d < c => Finished(req[d])
    /\ Send(c, {"classify"}, FewMessages, FewHistories)

NextTwice ==
    \E c \in Clients :
        \/ SendInARow(c)
        \/ FacadeStep(c)
        \/ PostFrom(c, FewResponses, ElapsedMs)

SpecTwice == Init /\ [][NextTwice]_vars

\* the service of app.py: uvicorn.run(app) serves the requests of all
\* clients on its one event loop
ServerOps == {"classify", "health"}

Serve(c) ==
    \/ Send(c, ServerOps, FewMessages, FewHistories)
    \/ Health(c)
    \/ FacadeStep(c)
    \/ PostFrom(c, FewResponses, ElapsedMs)
    \/ Done(c)

NextServer == \E c \in Clients : Serve(c)

SpecServer == Init /\ [][NextServer]_vars

(***************************************************************************)
(* The claims.                                                             *)
(***************************************************************************)
\* the message is empty or holds whitespace only
Blank(message) == \A i \in 1..Len(message) : message[i] = " "

\* the request is one of the two classification functions
Classifies(r) == r.op \in {"classify", "local"}

\* the classification function has returned its dict
HasReturned(r) == Classifies(r) /\ r.pc \in {"Returned", "Responded"}

\* the replies of the classifier to the invocations of a request
Replies(r) == [i \in 1..Len(Invocations(r)) |-> Invocations(r)[i].reply]

\* C1: a request whose message is empty or whitespace-only, with any
\* history, runs from its reception to its return through the short
\* circuit only and has invoked the classifier 0 times (and slept no
\* backoff), in both backends.
C1_EmptyNeverInvokes ==
    \A c \in Clients :
        (Classifies(req[c]) /\ Blank(req[c].message)) =>
            /\ req[c].events = <<>>
            /\ req[c].pc \in {"pending", "Received", "ShortCircuit", "Returned", "Responded"}

\* a whitespace-only message with a history has been answered
C1_Witness ==
    \E c \in Clients :
        /\ req[c].op = "classify"
        /\ req[c].message = <<" ">>
        /\ Len(req[c].history.turns) >= 2
        /\ req[c].pc = "Responded"
        /\ req[c].events = <<>>

\* C2 (as claimed): for an empty or whitespace-only message both backends
\* return intent "general", confidence 0.0, all_scores {} and error
\* "Empty message".
C2_EmptyResultBothBackends ==
    \A c \in Clients :
        (HasReturned(req[c]) /\ Blank(req[c].message)) =>
            /\ req[c].result.intent = "general"
            /\ req[c].result.confidence = 0
            /\ req[c].result.all_scores = {}
            /\ "error" \in req[c].result.keys
            /\ req[c].result.error = "Empty message"

\* C3 (as claimed): whatever the message, the history and the classifier's
\* behaviour, classify_intent_hf never raises and the classify endpoint
\* never answers 500: it answers 200 with intent, confidence and all_scores.
C3_FacadeNeverRaises ==
    \A c \in Clients :
        req[c].op = "classify" =>
            /\ req[c].pc # "Raised"
            /\ req[c].pc = "Responded" =>
                  /\ req[c].http.code = 200
                  /\ req[c].http.type = "classification"

\* the reply to the last invocation of a request that has invoked
LastReply(r) == Replies(r)[Len(Replies(r))]

\* the remote classifier answered with the loading status
IsLoading(reply) == reply.kind = "http" /\ reply.status = 503

\* the gateway step failed: a timeout, a network failure, a non-success
\* status, an answer that is no dict with labels, empty labels, no scores
GatewayFailure(reply) ==
    \/ reply.kind \in {"timeout", "neterr", "raise"}
    \/ reply.kind = "http" /\ (reply.status < 200 \/ reply.status > 299)
    \/ reply.body.shape \notin {"dict", "list1"}
    \/ ~reply.body.has_labels
    \/ reply.body.labels = <<>>
    \/ ~reply.body.has_scores

\* the degraded result: the fallback intent with an error and no raw label
Degraded(result) ==
    /\ result.intent = "general"
    /\ result.confidence = 0
    /\ result.all_scores = {}
    /\ "error" \in result.keys
    /\ result.error # None
    /\ "raw_label" \notin result.keys

\* the canonical intent of a raw label of the registry
Canonical(label) == CHOOSE v \in {p[2] : p \in INTENT_MAPPING_0} : <<label, v>> \in INTENT_MAPPING_0

RawLabels == {INTENT_LABELS_0[i] : i \in 1..Len(INTENT_LABELS_0)}

\* a successful answer: a ranking of all labels of the registry with scores
RankedSuccess(reply) ==
    /\ \/ reply.kind = "http" /\ reply.status = 200 /\ reply.body.shape \in {"dict", "list1"}
       \/ reply.kind = "value" /\ reply.body.shape = "dict"
    /\ reply.body.has_labels
    /\ reply.body.has_scores
    /\ Len(reply.body.labels) = Len(INTENT_LABELS_0)
    /\ Len(reply.body.scores) = Len(INTENT_LABELS_0)
    /\ {reply.body.labels[i] : i \in 1..Len(reply.body.labels)} = RawLabels
    /\ \A i \in 1..Len(reply.body.scores) : reply.body.scores[i] >= 0

\* C4: when the gateway step of a classify_intent_hf request with a
\* non-empty message fails (the last reply is a timeout, a network failure,
\* a non-success status, no dict with labels, empty labels or no scores),
\* the function does not raise and returns intent "general", confidence 0.0,
\* all_scores {}, an error and no raw_label; the endpoint answers 200 with
\* that error.
C4_GatewayFailureDegrades ==
    \A c \in Clients :
        (/\ req[c].op = "classify"
         /\ ~Blank(req[c].message)
         /\ Replies(req[c]) # <<>>
         /\ GatewayFailure(LastReply(req[c]))) =>
            /\ req[c].pc # "Raised"
            /\ HasReturned(req[c]) => Degraded(req[c].result)
            /\ req[c].pc = "Responded" =>
                  /\ req[c].http.code = 200
                  /\ req[c].http.error = req[c].result.error
                  /\ req[c].http.raw_label = None

\* an answer with labels and no scores has been turned into the degraded result
C4_Witness ==
    \E c \in Clients :
        /\ req[c].op = "classify"
        /\ req[c].pc = "Responded"
        /\ Len(Replies(req[c])) = 1
        /\ LastReply(req[c]).kind = "http"
        /\ LastReply(req[c]).status = 200
        /\ LastReply(req[c]).body.has_labels
        /\ ~LastReply(req[c]).body.has_scores
        /\ req[c].result.error = "'scores'"

\* the kinds of the events of a request, in their order
EventKinds(r) == [i \in 1..Len(r.events) |-> r.events[i].ev]

\* C5: when the first reply to a classify_intent_hf request is the loading
\* status, the function goes on only after one backoff and a second post
\* (post, sleep, post: exactly 2 invocations, the backoff between them), and
\* when the second reply is a well-formed success the result returned is
\* the error-free normalisation of the second reply.
C5_LoadingThenSuccess ==
    \A c \in Clients :
        (/\ req[c].op = "classify"
         /\ Replies(req[c]) # <<>>
         /\ IsLoading(Replies(req[c])[1])
         /\ req[c].pc \in {"Normalizing", "Failed", "Returned", "Raised", "Responded"}) =>
            /\ EventKinds(req[c]) = <<"post", "sleep", "post">>
            /\ (HasReturned(req[c]) /\ RankedSuccess(LastReply(req[c]))) =>
                  /\ "error" \notin req[c].result.keys
                  /\ req[c].result.raw_label = LastReply(req[c]).body.labels[1]
                  /\ req[c].result.confidence = LastReply(req[c]).body.scores[1]
                  /\ req[c].result.intent = Canonical(LastReply(req[c]).body.labels[1])

\* loading, then a ranking led by get_crypto_price: the price intent is returned
C5_Witness ==
    \E c \in Clients :
        /\ req[c].op = "classify"
        /\ req[c].pc = "Responded"
        /\ Len(Replies(req[c])) = 2
        /\ IsLoading(Replies(req[c])[1])
        /\ RankedSuccess(Replies(req[c])[2])
        /\ Replies(req[c])[2].body.labels[1] = "get_crypto_price"
        /\ req[c].result.intent = "supported_token_price"
        /\ EventKinds(req[c]) = <<"post", "sleep", "post">>

\* C6: a classify_intent_hf request makes at most 2 classifier invocations
\* and sleeps at most 1 backoff; when the reply to the second invocation is
\* loading again or any other failure the function makes no third
\* invocation and returns the degraded result with its error.
C6_AtMostOneRetry ==
    \A c \in Clients :
        req[c].op = "classify" =>
            /\ Len(Invocations(req[c])) <= 2
            /\ Len(Backoffs(req[c])) <= 1
            /\ (/\ Len(Replies(req[c])) = 2
                /\ IsLoading(Replies(req[c])[2]) \/ GatewayFailure(Replies(req[c])[2])) =>
                  /\ req[c].pc \in {"Normalizing", "Failed", "Returned", "Responded"}
                  /\ HasReturned(req[c]) => Degraded(req[c].result)

\* loading twice: the second loading reply has been returned as an error
C6_Witness ==
    \E c \in Clients :
        /\ req[c].op = "classify"
        /\ req[c].pc = "Responded"
        /\ Len(Replies(req[c])) = 2
        /\ IsLoading(Replies(req[c])[1])
        /\ IsLoading(Replies(req[c])[2])
        /\ req[c].result.error = "Server Error"

\* C7: a post of classify_intent_hf that times out is the last thing the
\* request does with the classifier (no backoff, no further invocation),
\* so a request whose first post times out makes exactly 1 invocation; the
\* result returned is intent "general", confidence 0.0, error "Request
\* timeout".
C7_TimeoutNoRetry ==
    \A c \in Clients :
        req[c].op = "classify" =>
            \A i \in 1..Len(req[c].events) :
                req[c].events[i].reply.kind = "timeout" =>
                    /\ i = Len(req[c].events)
                    /\ i = 1 => Len(Invocations(req[c])) = 1
                    /\ req[c].pc \in {"Failed", "Returned", "Responded"}
                    /\ HasReturned(req[c]) =>
                          /\ req[c].result.intent = "general"
                          /\ req[c].result.confidence = 0
                          /\ "error" \in req[c].result.keys
                          /\ req[c].result.error = "Request timeout"

\* the first post timed out and the request has been answered
C7_Witness ==
    \E c \in Clients :
        /\ req[c].op = "classify"
        /\ req[c].pc = "Responded"
        /\ Len(req[c].events) = 1
        /\ req[c].events[1].reply.kind = "timeout"
        /\ req[c].http.error = "Request timeout"

\* C8: when a request with a non-empty message has returned after a
\* successful answer ranking all labels of INTENT_LABELS, in either backend,
\* its result has no error, its intent is INTENT_MAPPING of the answer's
\* first label, its confidence is the answer's first score and its raw_label
\* is that first label.
C8_TopIntent ==
    \A c \in Clients :
        (/\ HasReturned(req[c])
         /\ ~Blank(req[c].message)
         /\ Replies(req[c]) # <<>>
         /\ RankedSuccess(LastReply(req[c]))) =>
            /\ "error" \notin req[c].result.keys
            /\ req[c].result.intent = Canonical(LastReply(req[c]).body.labels[1])
            /\ req[c].result.confidence = LastReply(req[c]).body.scores[1]
            /\ "raw_label" \in req[c].result.keys
            /\ req[c].result.raw_label = LastReply(req[c]).body.labels[1]

\* the local pipeline ranked check_portfolio first: dashboard at its score
C8_Witness ==
    \E c \in Clients :
        /\ req[c].op = "local"
        /\ req[c].pc = "Returned"
        /\ Replies(req[c]) # <<>>
        /\ RankedSuccess(LastReply(req[c]))
        /\ LastReply(req[c]).body.labels[1] = "check_portfolio"
        /\ req[c].result.intent = "dashboard"
        /\ req[c].result.confidence = RankScores[1]

\* the canonical intents INTENT_MAPPING reaches from INTENT_LABELS
CanonicalIntents == {Canonical(l) : l \in RawLabels}

\* C9: after a successful answer ranking all labels of INTENT_LABELS, in any
\* order of the rankings, the keys of all_scores are exactly the canonical
\* intents INTENT_MAPPING reaches from the labels, with one entry per key,
\* and there are no more keys than raw labels.
C9_AllScoresKeys ==
    \A c \in Clients :
        (/\ HasReturned(req[c])
         /\ Replies(req[c]) # <<>>
         /\ RankedSuccess(LastReply(req[c]))) =>
            /\ DictKeys(req[c].result.all_scores) = CanonicalIntents
            /\ Cardinality(req[c].result.all_scores) = Cardinality(CanonicalIntents)
            /\ Cardinality(DictKeys(req[c].result.all_scores))
                 <= Len(LastReply(req[c]).body.labels)

\* the reversed ranking has been normalised: 15 raw labels, 14 keys, one of
\* them dashboard
C9_Witness ==
    \E c \in Clients :
        /\ req[c].op = "classify"
        /\ req[c].pc = "Responded"
        /\ Replies(req[c]) # <<>>
        /\ RankedSuccess(LastReply(req[c]))
        /\ LastReply(req[c]).body.labels = Reverse(INTENT_LABELS_0)
        /\ Cardinality(DictKeys(req[c].http.all_scores)) = Len(INTENT_LABELS_0) - 1
        /\ "dashboard" \in DictKeys(req[c].http.all_scores)

\* the text field of a turn, the empty string when it is missing
TextOf(turn) == IF turn.has_text THEN turn.text ELSE <<>>

\* the composed text of the specification, for a history whose text fields
\* are strings or missing
ComposedText(message, history) ==
    LET turns == history.turns
        n == Len(turns)
    IN IF ~history.present \/ n = 0 THEN message
       ELSE LET joined == IF n = 1 THEN TextOf(turns[n])
                          ELSE TextOf(turns[n - 1]) \o <<" ">> \o TextOf(turns[n])
            IN IF joined = <<>> THEN message ELSE joined \o <<" ">> \o message

\* the text fields of the last two turns are strings or missing
TextsAreStrings(history) ==
    \A i \in 1..Len(history.turns) :
        i > Len(history.turns) - 2 =>
            (history.turns[i].has_text => history.turns[i].is_str)

HistoryABCD ==
    [present |-> TRUE, turns |-> [i \in 1..4 |-> Turn(i, "str")]]

RegistryAsLoaded ==
    \A b \in Backends :
        /\ registry[b].INTENT_LABELS = INTENT_LABELS_0
        /\ registry[b].INTENT_MAPPING = INTENT_MAPPING_0

\* two answered calls of classify_intent_hf with the same message and
\* history, to which the classifier replied the same way
SameCallTwice(c, d) ==
    /\ c < d
    /\ req[c].op = "classify" /\ req[c].pc = "Responded"
    /\ req[d].op = "classify" /\ req[d].pc = "Responded"
    /\ req[c].message = req[d].message
    /\ req[c].history = req[d].history
    /\ Replies(req[c]) = Replies(req[d])

\* the dict without its timing
WithoutTiming(result) == [result EXCEPT !.request_time_ms = NoTime]

\* C11 (as claimed): two calls in a row with the same message and history,
\* answered the same way by the classifier, return identical dicts, and the
\* registry is as loaded.
C11_IdenticalResults ==
    /\ RegistryAsLoaded
    /\ \A c, d \in Clients :
          SameCallTwice(c, d) => req[c].result = req[d].result

\* C11 (amended): two calls in a row with the same message and history,
\* answered the same way by the classifier, return dicts that are identical
\* in every key but request_time_ms, the endpoint's two answers are
\* identical, and after the first call the registry is as loaded and the
\* event loop is free for the second.
C11_IdenticalButTiming ==
    /\ RegistryAsLoaded
    /\ \A c, d \in Clients :
          /\ SameCallTwice(c, d) =>
                /\ WithoutTiming(req[c].result) = WithoutTiming(req[d].result)
                /\ req[c].result.keys = req[d].result.keys
                /\ req[c].http = req[d].http
          /\ (c < d /\ req[d].pc = "pending") => (Finished(req[c]) /\ loop = 0)

\* the same successful call twice, with two different timings
C11_Witness ==
    \E c, d \in Clients :
        /\ SameCallTwice(c, d)
        /\ req[c].message = <<"E">>
        /\ Len(Replies(req[c])) = 2
        /\ RankedSuccess(LastReply(req[c]))
        /\ req[c].result.request_time_ms # req[d].result.request_time_ms
        /\ req[c].http = req[d].http

\* the request is blocked in its classifier call or in its loading backoff
Blocked(r) == r.op = "classify" /\ r.pc \in {"Scoring", "AwaitingModel"}

\* C12: while one request of the classify endpoint is blocked in its
\* classifier call or in its loading backoff, another classify request that
\* has arrived can start (and then make its own classifier call and be
\* answered) without waiting for the first request to finish.
C12_NoSerialization ==
    \A c, d \in Clients :
        (/\ c # d
         /\ Blocked(req[c])
         /\ req[d].op = "classify"
         /\ req[d].pc = "pending") => ENABLED Receive(d)

\* C13: a health request is answered in every state of the service, also
\* while classify requests are in flight, blocked on the classifier or in
\* the loading backoff; its answer is status "healthy" with code 200, it has
\* made no classifier invocation and slept no backoff, and the registry is
\* as loaded.
C13_HealthAlwaysAnswered ==
    \A c \in Clients :
        req[c].op = "health" =>
            /\ req[c].pc = "pending" => ENABLED Health(c)
            /\ req[c].pc = "Responded" => req[c].http = HealthResponse
            /\ req[c].events = <<>>
            /\ RegistryAsLoaded

\* the steps of the state machine of a request: Received, then ShortCircuit
\* or Composing, Scoring (with its sub-state AwaitingModel), Normalizing or
\* Failed, then the return of the result and the response
ClaimedSteps ==
    { <<"idle", "pending">>, <<"pending", "Received">>,
      <<"Received", "ShortCircuit">>, <<"Received", "Composing">>,
      <<"ShortCircuit", "Returned">>, <<"Composing", "Scoring">>,
      <<"Scoring", "AwaitingModel">>, <<"AwaitingModel", "Scoring">>,
      <<"Scoring", "Normalizing">>, <<"Scoring", "Failed">>,
      <<"Normalizing", "Returned">>, <<"Normalizing", "Failed">>,
      <<"Failed", "Returned">>, <<"Returned", "Responded">>,
      <<"Responded", "idle">> }

\* C14: every step of a classify request is a step of the state machine
\* Received, then ShortCircuit or Composing, Scoring, Normalizing, then
\* Responded; the request never ends by raising, and when it reaches
\* Responded it carries a success or a degraded result.
C14_StateMachine ==
    [][\A c \in Clients :
          (req[c].op = "classify" \/ req'[c].op = "classify") =>
              /\ req'[c].pc # req[c].pc => <<req[c].pc, req'[c].pc>> \in ClaimedSteps
              /\ req'[c].pc = "Responded" =>
                    {"intent", "confidence", "all_scores"} \subseteq req'[c].result.keys]_vars

\* C15: a classify_intent request has no loading or backoff state and never
\* invokes the classifier twice; once it is over with a non-empty message
\* it has invoked the classifier exactly once, and when that call raised,
\* the result is the degraded one (intent "general", confidence 0.0,
\* all_scores {}, error set).
C15_LocalOneInvocation ==
    \A c \in Clients :
        req[c].op = "local" =>
            /\ req[c].pc # "AwaitingModel"
            /\ Backoffs(req[c]) = <<>>
            /\ Len(Invocations(req[c])) <= 1
            /\ (Finished(req[c]) /\ ~Blank(req[c].message)) =>
                  Len(Invocations(req[c])) = 1
            /\ (Finished(req[c]) /\ Invocations(req[c]) # <<>>
                    /\ LastReply(req[c]).kind = "raise") =>
                  /\ req[c].pc = "Returned"
                  /\ Degraded(req[c].result)

(***************************************************************************)
(* Claims on the labels of a successful result.                            *)
(***************************************************************************)
\* the function has returned the normalisation of the classifier's answer
Succeeded(r) ==
    /\ HasReturned(r)
    /\ Replies(r) # <<>>
    /\ "raw_label" \in r.result.keys

\* the labels and the scores that zip() pairs in the classifier's answer
Ranked(r) ==
    LET body == LastReply(r).body
        n == Min(Len(body.labels), Len(body.scores))
    IN [labels |-> SubSeq(body.labels, 1, n), scores |-> SubSeq(body.scores, 1, n)]

\* the raw label has no entry in INTENT_MAPPING
Unmapped(label) == ~DictHas(INTENT_MAPPING_0, label)

\* C16: in a successful result of either backend, a raw label of the
\* classifier's answer that has no entry in INTENT_MAPPING is reported as
\* "general": the intent is "general" when it is the top label, and
\* all_scores has the key "general" and not the raw label.
C16_UnmappedIsGeneral ==
    \A c \in Clients :
        Succeeded(req[c]) =>
            \A i \in 1..Len(Ranked(req[c]).labels) :
                Unmapped(Ranked(req[c]).labels[i]) =>
                    /\ i = 1 => req[c].result.intent = "general"
                    /\ DictHas(req[c].result.all_scores, "general")
                    /\ ~DictHas(req[c].result.all_scores, Ranked(req[c]).labels[i])

\* C17: in every reachable state of the service, whatever the interleaving
\* of the clients' classify and health requests and whatever their paths,
\* INTENT_LABELS and INTENT_MAPPING of both backends have the values they
\* had at startup.
C17_RegistryNeverWritten ==
    \A b \in Backends :
        registry[b] = [INTENT_LABELS |-> INTENT_LABELS_0,
                       INTENT_MAPPING |-> INTENT_MAPPING_0]

\* one client has been answered after a backoff and an answer with a label
\* outside INTENT_MAPPING, another one is in its classifier call
C17_Witness ==
    \E c, d \in Clients :
        /\ req[c].pc = "Responded"
        /\ Succeeded(req[c])
        /\ Len(Replies(req[c])) = 2
        /\ Unmapped(req[c].result.raw_label)
        /\ Blocked(req[d])
        /\ loop = d

\* the raw labels that INTENT_MAPPING maps to the canonical intent
RawLabelsOf(intent) == {l \in RawLabels : Canonical(l) = intent}

\* the place of the last of the labels given in the ranking, 0 if none
LastPlace(labels, among) ==
    LET places == {i \in 1..Len(labels) : labels[i] \in among}
    IN IF places = {} THEN 0 ELSE CHOOSE i \in places : \A j \in places : j <= i

\* C18: in a successful result of either backend, a canonical intent that
\* several raw labels map to (dashboard, from check_balance and
\* check_portfolio) has one entry in all_scores, and it holds the score of
\* the one of these raw labels that comes last in the ranking; two rankings
\* that are the same give the same entry.
C18_LastWriteWins ==
    \A c \in Clients :
        Succeeded(req[c]) =>
            LET ranked == Ranked(req[c])
                last == LastPlace(ranked.labels, RawLabelsOf("dashboard"))
            IN last # 0 =>
                  /\ Cardinality({p \in req[c].result.all_scores : p[1] = "dashboard"}) = 1
                  /\ DictAt(req[c].result.all_scores, "dashboard") = ranked.scores[last]

\* check_balance is ranked first and check_portfolio later with a lower
\* score: dashboard holds the lower score
C18_Witness ==
    \E c \in Clients :
        /\ Succeeded(req[c])
        /\ RankedSuccess(LastReply(req[c]))
        /\ Ranked(req[c]).labels[1] = "check_balance"
        /\ LastPlace(Ranked(req[c]).labels, {"check_portfolio"}) > 1
        /\ DictAt(req[c].result.all_scores, "dashboard") < Ranked(req[c]).scores[1]

\* the request has left its Scoring state for good
PastScoring(r) == r.pc \in {"Normalizing", "Failed", "Returned", "Responded"}

\* C19: in classify_intent_hf the backoff is entered only from a first
\* invocation that answered 503 and at most once; a request that has left
\* Scoring has made a second invocation if and only if the first answered
\* 503; and after a first reply that is another non-success status, a
\* malformed body, a network failure or a timeout, the request has made
\* that one invocation and slept no backoff.
C19_RetryIffLoading ==
    \A c \in Clients :
        (req[c].op = "classify" /\ Replies(req[c]) # <<>>) =>
            LET first == Replies(req[c])[1] IN
            /\ Len(Backoffs(req[c])) <= 1
            /\ req[c].pc = "AwaitingModel" =>
                  (IsLoading(first) /\ EventKinds(req[c]) = <<"post">>)
            /\ Backoffs(req[c]) # <<>> => IsLoading(first)
            /\ PastScoring(req[c]) =>
                  (Len(Invocations(req[c])) = 2 <=> IsLoading(first))
            /\ ~IsLoading(first) =>
                  /\ EventKinds(req[c]) = <<"post">>
                  /\ PastScoring(req[c])

\* a first reply 500 has been returned as an error after one invocation
C19_Witness ==
    \E c \in Clients :
        /\ req[c].op = "classify"
        /\ req[c].pc = "Responded"
        /\ Replies(req[c]) # <<>>
        /\ Replies(req[c])[1].kind = "http"
        /\ Replies(req[c])[1].status = 500
        /\ EventKinds(req[c]) = <<"post">>
        /\ Degraded(req[c].result)

ScoreKey(label) == IF Unmapped(label) THEN label ELSE Canonical(label)

\* the places of the ranking written under the key
PlacesOf(labels, key) == {i \in 1..Len(labels) : ScoreKey(labels[i]) = key}

====
